---- MODULE Spec2Model ----
(***************************************************************************)
(* A model of project1.py: the two CSV loaders (read_pollution, read_uhf), *)
(* the helpers they use and the four query functions.                      *)
(*                                                                         *)
(* Text is modelled as a sequence of one-character strings, so that        *)
(* trimming, digit tests, parsing, case conversion and substring search    *)
(* are computed character by character as Python computes them.  A file is *)
(* the sequence of rows csv.reader yields, a row a sequence of cells.      *)
(* A dict is a function whose DOMAIN is its key set; None is <<>> and an   *)
(* int n returned by _to_int_safe is <<n>>.                                *)
(***************************************************************************)
EXTENDS Integers, Sequences, FiniteSets, TLC

VARIABLES
    aq_rows,          \* rows of air_quality.csv as read by csv.reader
    uhf_rows,         \* rows of uhf.csv as read by csv.reader
    pc,               \* position of main(), or the exception that ended it
    i,                \* number of rows of the current loop already consumed
    start_idx,        \* read_pollution: 1 when row 0 was taken as a header
    by_uhf,           \* dict: uhf id -> list of measurements
    by_date,          \* dict: date -> list of measurements
    rows,             \* read_uhf: stripped rows, blank rows removed
    has_header,       \* read_uhf: layout A (TRUE) or layout B (FALSE)
    i_bor,            \* read_uhf layout A: borough column
    i_uhf,            \* read_uhf layout A: uhf code column
    i_zip_start,      \* read_uhf layout A: first zip column
    zip_to_uhfs,      \* dict: zip -> list of uhf ids
    borough_to_uhfs,  \* dict: borough -> list of uhf ids
    query,            \* <<kind, term>> of the last search, term stripped
    results,          \* list of measurements the last search returned
    code_in,          \* argument of a call of _expand_uhf_code
    code_out          \* the list it returned, <<>> before the call

vars == <<aq_rows, uhf_rows, pc, i, start_idx, by_uhf, by_date, rows,
          has_header, i_bor, i_uhf, i_zip_start, zip_to_uhfs,
          borough_to_uhfs, query, results, code_in, code_out>>

(***************************************************************************)
(* Characters and strings.  The characters are those of U+0001..U+00FF,    *)
(* classed as Python classes them (str.isspace, str.isdigit, str.lower,    *)
(* str.title).                                                             *)
(***************************************************************************)
Range(f) == {f[k] : k \in DOMAIN f}

\* the decimal digits: the digits int() and float() read
DigitChars == <<"0", "1", "2", "3", "4", "5", "6", "7", "8", "9">>

\* the superscript digits: str.isdigit() holds of them, int() rejects them
SuperscriptChars == {"¹", "²", "³"}

\* the whitespace str.strip() removes: space, \t, \n, \r, \f, then U+000B,
\* U+001C..U+001F, U+0085 and U+00A0
SpaceChars ==
    {" ", "\t", "\n", "\r", "\f", "", "", "", "", "", "", " "}

\* the lowercase letters that have an uppercase letter among the characters,
\* and those uppercase letters position by position
LowerChars == <<"a", "b", "c", "d", "e", "f", "g", "h", "i", "j", "k", "l",
               "m", "n", "o", "p", "q", "r", "s", "t", "u", "v", "w", "x",
               "y", "z", "à", "á", "â", "ã", "ä", "å", "æ", "ç", "è", "é",
               "ê", "ë", "ì", "í", "î", "ï", "ð", "ñ", "ò", "ó", "ô", "õ",
               "ö", "ø", "ù", "ú", "û", "ü", "ý", "þ">>

UpperChars == <<"A", "B", "C", "D", "E", "F", "G", "H", "I", "J", "K", "L",
               "M", "N", "O", "P", "Q", "R", "S", "T", "U", "V", "W", "X",
               "Y", "Z", "À", "Á", "Â", "Ã", "Ä", "Å", "Æ", "Ç", "È", "É",
               "Ê", "Ë", "Ì", "Í", "Î", "Ï", "Ð", "Ñ", "Ò", "Ó", "Ô", "Õ",
               "Ö", "Ø", "Ù", "Ú", "Û", "Ü", "Ý", "Þ">>

\* cased characters outside the two tables: lower() leaves all five alone,
\* title() leaves ª and º alone, turns ß into Ss and turns µ and ÿ into
\* U+039C and U+0178
OtherCasedChars == {"ª", "º", "ß", "µ", "ÿ"}

DigitSet == Range(DigitChars)

LowerSet == Range(LowerChars)

UpperSet == Range(UpperChars)

IsDecimalChar(c) == c \in DigitSet

\* c.isdigit()
IsDigitChar(c) == c \in DigitSet \cup SuperscriptChars

\* c.isspace()
IsSpaceChar(c) == c \in SpaceChars

IsLowerChar(c) == c \in LowerSet

IsUpperChar(c) == c \in UpperSet

IsCasedChar(c) == c \in LowerSet \cup UpperSet \cup OtherCasedChars

DigitVal(c) == (CHOOSE k \in DOMAIN DigitChars : DigitChars[k] = c) - 1

\* c.lower()
LowerChar(c) ==
    IF IsUpperChar(c)
    THEN LowerChars[CHOOSE k \in DOMAIN UpperChars : UpperChars[k] = c]
    ELSE c

\* the title-case form of c, a string: of one character except for ß; µ and
\* ÿ have theirs outside the characters of the model and no value here
TitleChar(c) ==
    CASE IsLowerChar(c) ->
             <<UpperChars[CHOOSE k \in DOMAIN LowerChars : LowerChars[k] = c]>>
      [] c = "ß" -> <<"S", "s">>
      [] ~IsLowerChar(c) /\ c \notin {"ß", "µ", "ÿ"} -> <<c>>

\* str.lower()
Lower(s) == [k \in DOMAIN s |-> LowerChar(s[k])]

\* str.isdigit(): at least one character and every character a digit
IsDigitStr(s) == Len(s) > 0 /\ \A k \in DOMAIN s : IsDigitChar(s[k])

\* str.strip(): leading and trailing whitespace removed
Strip(s) ==
    LET keep == {k \in DOMAIN s : ~IsSpaceChar(s[k])}
    IN  IF keep = {} THEN <<>>
        ELSE SubSeq(s, CHOOSE a \in keep : \A b \in keep : a <= b,
                       CHOOSE a \in keep : \A b \in keep : a >= b)

\* k in h: h holds k as a substring
Contains(h, k) ==
    \E a \in 1..(Len(h) - Len(k) + 1) : SubSeq(h, a, a + Len(k) - 1) = k

\* str.title(): each character is replaced by its lowercase form when the
\* character before it is cased, and by its title-case form otherwise
RECURSIVE TitleFrom(_, _)
TitleFrom(s, prev_cased) ==
    IF s = <<>> THEN <<>>
    ELSE LET c == Head(s)
         IN  (IF prev_cased THEN <<LowerChar(c)>> ELSE TitleChar(c))
                 \o TitleFrom(Tail(s), IsCasedChar(c))

Title(s) == TitleFrom(s, FALSE)

(***************************************************************************)
(* int() and float() of a trimmed string.  Values are computed in TLC's    *)
(* integers: an int, a mantissa or an exponent of 2^31 or more has no      *)
(* value in the model.                                                     *)
(***************************************************************************)
\* digit (["_"] digit)*: the digit part of Python's numeric literals
DigitPart(b) ==
    /\ Len(b) > 0
    /\ IsDecimalChar(b[1])
    /\ IsDecimalChar(b[Len(b)])
    /\ \A k \in DOMAIN b : IsDecimalChar(b[k]) \/ b[k] = "_"
    /\ \A k \in 1..(Len(b) - 1) : ~(b[k] = "_" /\ b[k + 1] = "_")

\* the decimal value of a digit part, underscores ignored
RECURSIVE DecValue(_)
DecValue(b) ==
    IF b = <<>> THEN 0
    ELSE LET front == SubSeq(b, 1, Len(b) - 1)
             c == b[Len(b)]
         IN  IF c = "_" THEN DecValue(front) ELSE 10 * DecValue(front) + DigitVal(c)

HasSign(t) == Len(t) > 0 /\ t[1] \in {"+", "-"}

Unsigned(t) == IF HasSign(t) THEN Tail(t) ELSE t

SignOf(t) == IF Len(t) > 0 /\ t[1] = "-" THEN -1 ELSE 1

\* int(t) succeeds
IntParses(t) == DigitPart(Unsigned(t))

\* int(t)
IntValue(t) == SignOf(t) * DecValue(Unsigned(t))

None == <<>>

\* _to_int_safe: <<n>> for the int n, None when int() raises
_to_int_safe(x) ==
    LET t == Strip(x)
    IN  IF IntParses(t) THEN <<IntValue(t)>> ELSE None

\* first position of a character of cs in s, 0 when there is none
FirstIndex(s, cs) ==
    LET hits == {k \in DOMAIN s : s[k] \in cs}
    IN  IF hits = {} THEN 0 ELSE CHOOSE a \in hits : \A b \in hits : a <= b

\* the parts of a float literal: mantissa m (before e/E) and exponent x
Mantissa(u) ==
    LET e == FirstIndex(u, {"e", "E"})
    IN  IF e = 0 THEN u ELSE SubSeq(u, 1, e - 1)

Exponent(u) ==
    LET e == FirstIndex(u, {"e", "E"})
    IN  IF e = 0 THEN <<>> ELSE SubSeq(u, e + 1, Len(u))

IntPart(m) ==
    LET d == FirstIndex(m, {"."})
    IN  IF d = 0 THEN m ELSE SubSeq(m, 1, d - 1)

FracPart(m) ==
    LET d == FirstIndex(m, {"."})
    IN  IF d = 0 THEN <<>> ELSE SubSeq(m, d + 1, Len(m))

Inf == <<"i", "n", "f">>

Infinity == <<"i", "n", "f", "i", "n", "i", "t", "y">>

NaN == <<"n", "a", "n">>

\* float(t) succeeds: [sign] (inf | infinity | nan | digits[.[digits]][exp] |
\* .digits[exp]), letters in either case
FloatParses(t) ==
    LET u == Unsigned(t)
        m == Mantissa(u)
        x == Exponent(u)
        ip == IntPart(m)
        fp == FracPart(m)
    IN  \/ Lower(u) \in {Inf, Infinity, NaN}
        \/ /\ \/ DigitPart(ip) /\ (fp = <<>> \/ DigitPart(fp))
              \/ ip = <<>> /\ FirstIndex(m, {"."}) = 1 /\ DigitPart(fp)
           /\ \/ FirstIndex(u, {"e", "E"}) = 0
              \/ DigitPart(Unsigned(x))

\* m * 10^e with the trailing zeros of m moved into e; 0 is <<0, 0>>
RECURSIVE Normal(_, _)
Normal(m, e) ==
    IF m = 0 THEN <<0, 0>>
    ELSE IF m % 10 = 0 THEN Normal(m \div 10, e + 1) ELSE <<m, e>>

NumDigits(b) == Cardinality({k \in DOMAIN b : IsDecimalChar(b[k])})

\* number of decimal digits of n > 0
RECURSIVE NumDigitsOf(_)
NumDigitsOf(n) == IF n < 10 THEN 1 ELSE 1 + NumDigitsOf(n \div 10)

RECURSIVE Pow10(_)
Pow10(k) == IF k = 0 THEN 1 ELSE 10 * Pow10(k - 1)

Abs(n) == IF n < 0 THEN -n ELSE n

\* the decimal exponent of m * 10^e written d.ddd * 10^x, m # 0
DecimalExponent(m, e) == e + NumDigitsOf(Abs(m)) - 1

\* m * 10^e, m # 0, rounds to a magnitude beyond the largest double,
\* 1.7976931348623157e308: float() gives inf
Overflows(m, e) ==
    LET a == Abs(m)
        nd == NumDigitsOf(a)
    IN  \/ DecimalExponent(m, e) > 308
        \/ /\ DecimalExponent(m, e) = 308
           /\ \/ a \div Pow10(nd - 1) >= 2
              \/ a * Pow10(10 - nd) >= 1797693135

\* float(t) as <<kind, m, e>>: kind 0 is the number m * 10^e (-0.0 and 0.0
\* equal as in Python), kind 1 is inf (m its sign), kind 2 is nan.  The
\* number is the decimal read where a double holds it to the digits given
\* (decimal exponent -307 and up), inf beyond the largest double and 0.0
\* below 1e-324; between the two, a subnormal double, it has no value here.
FloatValue(t) ==
    LET u == Unsigned(t)
        m == Mantissa(u)
        x == Exponent(u)
    IN  IF Lower(u) \in {Inf, Infinity} THEN <<1, SignOf(t), 0>>
        ELSE IF Lower(u) = NaN THEN <<2, 0, 0>>
        ELSE LET n == Normal(SignOf(t) * DecValue(IntPart(m) \o FracPart(m)),
                             (IF x = <<>> THEN 0 ELSE IntValue(x))
                                 - NumDigits(FracPart(m)))
             IN  CASE n[1] = 0 -> <<0, 0, 0>>
                   [] n[1] # 0 /\ Overflows(n[1], n[2]) -> <<1, SignOf(t), 0>>
                   [] n[1] # 0 /\ ~Overflows(n[1], n[2])
                          /\ DecimalExponent(n[1], n[2]) >= -307 -> <<0, n[1], n[2]>>
                   [] n[1] # 0 /\ DecimalExponent(n[1], n[2]) < -324 -> <<0, 0, 0>>

\* _to_float_safe: <<v>> for the float v, None when float() raises
_to_float_safe(x) ==
    LET t == Strip(x)
    IN  IF FloatParses(t) THEN <<FloatValue(t)>> ELSE None

\* _norm_borough
_norm_borough(name) == Title(Strip(name))

\* s[i:i+3] for i in range(0, len(s), 3)
Chunks(s) == [k \in 1..(Len(s) \div 3) |-> SubSeq(s, 3 * k - 2, 3 * k)]

\* s.isdigit() and len(s) > 3 and len(s) % 3 == 0
IsChain(s) == IsDigitStr(s) /\ Len(s) > 3 /\ Len(s) % 3 = 0

\* _expand_uhf_code raises ValueError: the trimmed cell passes the test for
\* a chain and int() raises on one of its chunks, with no try around it
_expand_uhf_code_raises(uhf_code) ==
    LET s == Strip(uhf_code)
    IN  IsChain(s) /\ \E k \in DOMAIN Chunks(s) : ~IntParses(Chunks(s)[k])

\* _expand_uhf_code: the list returned by a call that does not raise
_expand_uhf_code(uhf_code) ==
    LET s == Strip(uhf_code)
    IN  IF s = <<>> THEN <<>>
        ELSE IF IsChain(s)
        THEN [k \in DOMAIN Chunks(s) |-> IntValue(Chunks(s)[k])]
        ELSE _to_int_safe(s)

(***************************************************************************)
(* Dicts and lists                                                         *)
(***************************************************************************)
\* d.get(k, [])
DictGet(d, k) == IF k \in DOMAIN d THEN d[k] ELSE <<>>

\* d[k] = v
DictPut(d, k, v) == [x \in DOMAIN d \cup {k} |-> IF x = k THEN v ELSE d[x]]

\* d.setdefault(k, []).append(m)
SetDefaultAppend(d, k, m) == DictPut(d, k, Append(DictGet(d, k), m))

\* u in lst
InList(u, lst) == \E k \in DOMAIN lst : lst[k] = u

Max3(a, b, c) ==
    IF a >= b /\ a >= c THEN a ELSE IF b >= c THEN b ELSE c

(***************************************************************************)
(* read_pollution                                                          *)
(***************************************************************************)
\* start_idx: 1 when row 0 has a first cell that is not all digits
StartIdx(rs) ==
    IF rs # <<>> /\ rs[1] # <<>> /\ ~IsDigitStr(Strip(rs[1][1])) THEN 1 ELSE 0

\* the row passes the length test and the validation of its four fields
RowIsValid(row) ==
    /\ Len(row) >= 4
    /\ _to_int_safe(row[1]) # None
    /\ Strip(row[2]) # <<>>
    /\ Strip(row[3]) # <<>>
    /\ _to_float_safe(row[4]) # None

\* the measurement tuple (date_str, uhf_id, uhf_name, value) of a valid row
MeasurementOf(row) ==
    <<Strip(row[3]), _to_int_safe(row[1])[1], Strip(row[2]),
      _to_float_safe(row[4])[1]>>

\* one turn of the loop on <<by_uhf, by_date>>: a row that fails a test is
\* passed over (continue), a valid one is appended to both dicts
IndexRow(both, row) ==
    IF RowIsValid(row)
    THEN LET m == MeasurementOf(row)
         IN  <<SetDefaultAppend(both[1], m[2], m),
               SetDefaultAppend(both[2], m[1], m)>>
    ELSE both

\* the loop over rows[k - 1:]
RECURSIVE IndexRows(_, _, _)
IndexRows(both, rs, k) ==
    IF k > Len(rs) THEN both ELSE IndexRows(IndexRow(both, rs[k]), rs, k + 1)

\* read_pollution as a function of the rows read: <<by_uhf, by_date>>
read_pollution(rs) == IndexRows(<<<<>>, <<>>>>, rs, StartIdx(rs) + 1)

read_pollution_begin ==
    /\ pc = "read_pollution"
    /\ by_uhf' = <<>>
    /\ by_date' = <<>>
    /\ IF aq_rows = <<>>
       THEN /\ pc' = "read_uhf"
            /\ UNCHANGED <<start_idx, i>>
       ELSE /\ start_idx' = StartIdx(aq_rows)
            /\ i' = start_idx'
            /\ pc' = "aq_loop"
    /\ UNCHANGED <<aq_rows, uhf_rows, rows, has_header, i_bor, i_uhf,
                   i_zip_start, zip_to_uhfs, borough_to_uhfs, query, results,
                   code_in, code_out>>

read_pollution_row ==
    /\ pc = "aq_loop"
    /\ i < Len(aq_rows)
    /\ LET both == IndexRow(<<by_uhf, by_date>>, aq_rows[i + 1])
       IN  /\ by_uhf' = both[1]
           /\ by_date' = both[2]
    /\ i' = i + 1
    /\ UNCHANGED <<aq_rows, uhf_rows, pc, start_idx, rows, has_header, i_bor,
                   i_uhf, i_zip_start, zip_to_uhfs, borough_to_uhfs, query,
                   results, code_in, code_out>>

read_pollution_return ==
    /\ pc = "aq_loop"
    /\ i >= Len(aq_rows)
    /\ pc' = "read_uhf"
    /\ UNCHANGED <<aq_rows, uhf_rows, i, start_idx, by_uhf, by_date, rows,
                   has_header, i_bor, i_uhf, i_zip_start, zip_to_uhfs,
                   borough_to_uhfs, query, results, code_in, code_out>>

(***************************************************************************)
(* read_uhf                                                                *)
(***************************************************************************)
\* [c.strip() for c in r]
StripCells(r) == [k \in DOMAIN r |-> Strip(r[k])]

\* [c.lower() for c in r]
LowerCells(r) == [k \in DOMAIN r |-> Lower(r[k])]

\* any(c.strip() for c in r)
AnyCell(r) == \E k \in DOMAIN r : Strip(r[k]) # <<>>

\* rows: every cell stripped, rows without a non-blank cell dropped
RECURSIVE StrippedRows(_)
StrippedRows(raw) ==
    IF raw = <<>> THEN <<>>
    ELSE (IF AnyCell(Head(raw)) THEN <<StripCells(Head(raw))>> ELSE <<>>)
             \o StrippedRows(Tail(raw))

KwBorough == <<"b", "o", "r", "o", "u", "g", "h">>

KwBoro == <<"b", "o", "r", "o">>

KwZip == <<"z", "i", "p">>

KwUhfId == <<"u", "h", "f", "_", "i", "d">>

KwUhfSpaceId == <<"u", "h", "f", " ", "i", "d">>

KwUhf == <<"u", "h", "f">>

KwCode == <<"c", "o", "d", "e">>

KwId == <<"i", "d">>

\* HasHeader with "uhf" among the keywords
HasHeader_uhf(first_lower) ==
    \E k \in DOMAIN first_lower :
        \E kw \in {KwBorough, KwBoro, KwZip, KwUhfId, KwUhfSpaceId, KwUhf} :
            Contains(first_lower[k], kw)

\* has_header, from the lower-cased first row
HasHeader(first_lower) ==
    \E k \in DOMAIN first_lower :
        \E kw \in {KwBorough, KwBoro, KwZip, KwUhfId, KwUhfSpaceId} :
            Contains(first_lower[k], kw)

\* find_col: the 0-based index of the first header cell holding a key
FindCol(header, keys, default) ==
    LET hits == {k \in DOMAIN header : \E kw \in keys : Contains(header[k], kw)}
    IN  IF hits = {} THEN default
        ELSE (CHOOSE a \in hits : \A b \in hits : a <= b) - 1

\* SkipRowA with < for <=: a row is let through without a cell at the
\* largest index
SkipRowA_strict(r, ib, iu, iz) == Len(r) < Max3(ib, iu, iz)

\* layout A: the row is skipped (continue)
SkipRowA(r, ib, iu, iz) == Len(r) <= Max3(ib, iu, iz)

\* layout B: the row is skipped (continue)
SkipRowB(r) == Len(r) < 3

\* the zips of the cells: first five characters of each cell that has at
\* least five and starts with five digits, duplicates dropped, order kept
RECURSIVE ExtractZips(_, _)
ExtractZips(zip_cells, seen) ==
    IF zip_cells = <<>> THEN seen
    ELSE LET z == Head(zip_cells)
             z5 == SubSeq(z, 1, 5)
         IN  ExtractZips(Tail(zip_cells),
                         IF Len(z) >= 5 /\ IsDigitStr(z5) /\ ~InList(z5, seen)
                         THEN Append(seen, z5) ELSE seen)

\* MergeIds without the membership test
MergeIds_nodedup(lst, uhf_ids) == lst \o uhf_ids

\* for u in uhf_ids: if u not in lst: lst.append(u)
RECURSIVE MergeIds(_, _)
MergeIds(lst, uhf_ids) ==
    IF uhf_ids = <<>> THEN lst
    ELSE MergeIds(IF InList(Head(uhf_ids), lst) THEN lst
                  ELSE Append(lst, Head(uhf_ids)),
                  Tail(uhf_ids))

\* if borough and uhf_ids: setdefault, then merge
MapBorough(d, borough, uhf_ids) ==
    IF borough # <<>> /\ uhf_ids # <<>>
    THEN DictPut(d, borough, MergeIds(DictGet(d, borough), uhf_ids))
    ELSE d

\* for z in zips: setdefault, then merge
RECURSIVE MapZips(_, _, _)
MapZips(d, zips, uhf_ids) ==
    IF zips = <<>> THEN d
    ELSE MapZips(DictPut(d, Head(zips), MergeIds(DictGet(d, Head(zips)), uhf_ids)),
                 Tail(zips), uhf_ids)

read_uhf_begin ==
    /\ pc = "read_uhf"
    /\ zip_to_uhfs' = <<>>
    /\ borough_to_uhfs' = <<>>
    /\ rows' = StrippedRows(uhf_rows)
    /\ IF rows' = <<>>
       THEN /\ pc' = "menu"
            /\ UNCHANGED <<i, has_header, i_bor, i_uhf, i_zip_start>>
       ELSE LET header == LowerCells(rows'[1])
            IN  /\ has_header' = HasHeader(header)
                /\ IF has_header'
                   THEN /\ i_bor' = FindCol(header, {KwBorough, KwBoro}, 0)
                        /\ i_uhf' = FindCol(header, {KwUhf, KwCode, KwId}, 1)
                        /\ i_zip_start' = FindCol(header, {KwZip}, 2)
                        /\ i' = 1
                        /\ pc' = "uhf_loop_a"
                   ELSE /\ i' = 0
                        /\ pc' = "uhf_loop_b"
                        /\ UNCHANGED <<i_bor, i_uhf, i_zip_start>>
    /\ UNCHANGED <<aq_rows, uhf_rows, start_idx, by_uhf, by_date, query,
                   results, code_in, code_out>>

read_uhf_row_a ==
    /\ pc = "uhf_loop_a"
    /\ i < Len(rows)
    /\ LET r == rows[i + 1]
       IN  IF SkipRowA(r, i_bor, i_uhf, i_zip_start)
           THEN /\ i' = i + 1
                /\ UNCHANGED <<pc, zip_to_uhfs, borough_to_uhfs>>
           ELSE IF i_bor >= Len(r) \/ i_uhf >= Len(r)
           THEN \* r[i_bor] or r[i_uhf] raises IndexError
                /\ pc' = "IndexError"
                /\ UNCHANGED <<i, zip_to_uhfs, borough_to_uhfs>>
           ELSE IF _expand_uhf_code_raises(r[i_uhf + 1])
           THEN \* the ValueError leaves read_uhf and main
                /\ pc' = "ValueError"
                /\ UNCHANGED <<i, zip_to_uhfs, borough_to_uhfs>>
           ELSE LET borough == _norm_borough(r[i_bor + 1])
                    uhf_ids == _expand_uhf_code(r[i_uhf + 1])
                    zips == ExtractZips(SubSeq(r, i_zip_start + 1, Len(r)), <<>>)
                IN  /\ borough_to_uhfs' = MapBorough(borough_to_uhfs, borough, uhf_ids)
                    /\ zip_to_uhfs' = MapZips(zip_to_uhfs, zips, uhf_ids)
                    /\ i' = i + 1
                    /\ UNCHANGED pc
    /\ UNCHANGED <<aq_rows, uhf_rows, start_idx, by_uhf, by_date, rows,
                   has_header, i_bor, i_uhf, i_zip_start, query, results,
                   code_in, code_out>>

read_uhf_row_b ==
    /\ pc = "uhf_loop_b"
    /\ i < Len(rows)
    /\ LET r == rows[i + 1]
       IN  IF SkipRowB(r)
           THEN /\ i' = i + 1
                /\ UNCHANGED <<pc, zip_to_uhfs, borough_to_uhfs>>
           ELSE IF _expand_uhf_code_raises(r[3])
           THEN \* the ValueError leaves read_uhf and main
                /\ pc' = "ValueError"
                /\ UNCHANGED <<i, zip_to_uhfs, borough_to_uhfs>>
           ELSE LET borough == _norm_borough(r[1])
                    uhf_ids == _expand_uhf_code(r[3])
                    zips == ExtractZips(SubSeq(r, 4, Len(r)), <<>>)
                IN  /\ borough_to_uhfs' = MapBorough(borough_to_uhfs, borough, uhf_ids)
                    /\ zip_to_uhfs' = MapZips(zip_to_uhfs, zips, uhf_ids)
                    /\ i' = i + 1
                    /\ UNCHANGED pc
    /\ UNCHANGED <<aq_rows, uhf_rows, start_idx, by_uhf, by_date, rows,
                   has_header, i_bor, i_uhf, i_zip_start, query, results,
                   code_in, code_out>>

read_uhf_return ==
    /\ pc \in {"uhf_loop_a", "uhf_loop_b"}
    /\ i >= Len(rows)
    /\ pc' = "menu"
    /\ UNCHANGED <<aq_rows, uhf_rows, i, start_idx, by_uhf, by_date, rows,
                   has_header, i_bor, i_uhf, i_zip_start, zip_to_uhfs,
                   borough_to_uhfs, query, results, code_in, code_out>>

(***************************************************************************)
(* The query functions                                                     *)
(***************************************************************************)
\* for u in ids: out.extend(by_uhf.get(u, []))
RECURSIVE ExtendAll(_, _)
ExtendAll(ids, byu) ==
    IF ids = <<>> THEN <<>>
    ELSE DictGet(byu, Head(ids)) \o ExtendAll(Tail(ids), byu)

\* search_by_zip matching any key the code given is a prefix of
search_by_zip_prefix(zip_code, z2u, byu) ==
    LET hits == {z \in DOMAIN z2u :
                    Len(z) >= Len(zip_code) /\ SubSeq(z, 1, Len(zip_code)) = zip_code}
    IN  IF hits = {} THEN <<>> ELSE ExtendAll(z2u[CHOOSE z \in hits : TRUE], byu)

search_by_zip(zip_code, z2u, byu) == ExtendAll(DictGet(z2u, zip_code), byu)

search_by_uhf(uhf_id, byu) ==
    LET u == _to_int_safe(uhf_id)
    IN  IF u # None THEN DictGet(byu, u[1]) ELSE <<>>

\* search_by_borough looking the name up as given
search_by_borough_raw(borough, b2u, byu) == ExtendAll(DictGet(b2u, borough), byu)

search_by_borough(borough, b2u, byu) ==
    ExtendAll(DictGet(b2u, _norm_borough(borough)), byu)

search_by_date(date_str, byd) == DictGet(byd, Strip(date_str))

(***************************************************************************)
(* Bounds of the model                                                     *)
(***************************************************************************)
MaxAqRows == 3

MaxUhfRows == 3

MaxMainRows == 2

MaxCodeLen == 6

(***************************************************************************)
(* Inputs: the rows the files are built from, and the terms searched for   *)
(***************************************************************************)
\* every sequence of at most n elements of S
FilesOver(S, n) == UNION {[1..k -> S] : k \in 0..n}

\* Geo ID,Name,Date,pm2.5: a header row
AqHeader ==
    <<<<"G", "e", "o", " ", "I", "D">>,
      <<"N", "a", "m", "e">>,
      <<"D", "a", "t", "e">>,
      <<"p", "m", "2", ".", "5">>>>

\* 101,Kb,2009/06/01,9.5
AqBronxA ==
    <<<<"1", "0", "1">>,
      <<"K", "b">>,
      <<"2", "0", "0", "9", "/", "0", "6", "/", "0", "1">>,
      <<"9", ".", "5">>>>

\* ' 101 ',Kb,2010/01/01,1e1: the id is padded
AqBronxB ==
    <<<<" ", "1", "0", "1", " ">>,
      <<"K", "b">>,
      <<"2", "0", "1", "0", "/", "0", "1", "/", "0", "1">>,
      <<"1", "e", "1">>>>

\* 205,Sunset Park,2009/06/01,11.45
AqSunset ==
    <<<<"2", "0", "5">>,
      <<"S", "u", "n", "s", "e", "t", " ", "P", "a", "r", "k">>,
      <<"2", "0", "0", "9", "/", "0", "6", "/", "0", "1">>,
      <<"1", "1", ".", "4", "5">>>>

\* -5,Kb,2009/06/01,9.5: int() accepts the signed id
AqSigned ==
    <<<<"-", "5">>,
      <<"K", "b">>,
      <<"2", "0", "0", "9", "/", "0", "6", "/", "0", "1">>,
      <<"9", ".", "5">>>>

\* 101,Kb,2009/06/01: three cells
AqShort ==
    <<<<"1", "0", "1">>,
      <<"K", "b">>,
      <<"2", "0", "0", "9", "/", "0", "6", "/", "0", "1">>>>

\* x1,Kb,2009/06/01,9.5: the id is not an int
AqBadId ==
    <<<<"x", "1">>,
      <<"K", "b">>,
      <<"2", "0", "0", "9", "/", "0", "6", "/", "0", "1">>,
      <<"9", ".", "5">>>>

\* 101,' ',2009/06/01,9.5: the name is blank
AqNoName ==
    <<<<"1", "0", "1">>,
      <<" ">>,
      <<"2", "0", "0", "9", "/", "0", "6", "/", "0", "1">>,
      <<"9", ".", "5">>>>

\* 205,Kb,,9.5: the date is empty
AqNoDate ==
    <<<<"2", "0", "5">>,
      <<"K", "b">>,
      <<>>,
      <<"9", ".", "5">>>>

\* 205,Kb,2009/06/01,n/a: the value is not a float
AqBadValue ==
    <<<<"2", "0", "5">>,
      <<"K", "b">>,
      <<"2", "0", "0", "9", "/", "0", "6", "/", "0", "1">>,
      <<"n", "/", "a">>>>

\* a blank line: csv.reader yields a row without cells
AqBlank == <<>>

\* ²,Kb,2009/06/01,9.5: isdigit() holds of the id, int() rejects it
AqSuperscript ==
    <<<<"²">>,
      <<"K", "b">>,
      <<"2", "0", "0", "9", "/", "0", "6", "/", "0", "1">>,
      <<"9", ".", "5">>>>

\* 101,Kb,2010/01/01,1e400 with U+00A0 before the id and \f after it: the
\* value is beyond the largest double
AqOverflow ==
    <<<<" ", "1", "0", "1", "\f">>,
      <<"K", "b">>,
      <<"2", "0", "1", "0", "/", "0", "1", "/", "0", "1">>,
      <<"1", "e", "4", "0", "0">>>>

AqRowSet ==
    {AqHeader, AqBronxA, AqBronxB, AqSunset, AqSigned, AqShort, AqBadId,
     AqNoName, AqNoDate, AqBadValue, AqBlank, AqSuperscript, AqOverflow}

\* Borough,UHF,Zip: a header, columns 0, 1, 2
UhfHeader ==
    <<<<"B", "o", "r", "o", "u", "g", "h">>,
      <<"U", "H", "F">>,
      <<"Z", "i", "p">>>>

\* zip,boro,uhf_id: a header, zips from column 0, codes in column 2
UhfHeaderZipFirst ==
    <<<<"z", "i", "p">>,
      <<"b", "o", "r", "o">>,
      <<"u", "h", "f", "_", "i", "d">>>>

\* Bronx,UHF42,101,10463: a layout B row
UhfBronx ==
    <<<<"B", "r", "o", "n", "x">>,
      <<"U", "H", "F", "4", "2">>,
      <<"1", "0", "1">>,
      <<"1", "0", "4", "6", "3">>>>

\* Bronx,101,10463,10471: a layout A row
UhfBronxA ==
    <<<<"B", "r", "o", "n", "x">>,
      <<"1", "0", "1">>,
      <<"1", "0", "4", "6", "3">>,
      <<"1", "0", "4", "7", "1">>>>

\* ' bronx ',105106,104631234: a composite code and a long zip cell
UhfPadded ==
    <<<<" ", "b", "r", "o", "n", "x", " ">>,
      <<"1", "0", "5", "1", "0", "6">>,
      <<"1", "0", "4", "6", "3", "1", "2", "3", "4">>>>

\* Queens,105: borough and code, no zip cell
UhfNoZip ==
    <<<<"Q", "u", "e", "e", "n", "s">>,
      <<"1", "0", "5">>>>

\* Bronx,UHF42,abc,10463: the code yields no id
UhfBadCode ==
    <<<<"B", "r", "o", "n", "x">>,
      <<"U", "H", "F", "4", "2">>,
      <<"a", "b", "c">>,
      <<"1", "0", "4", "6", "3">>>>

\* '',' ': a blank row
UhfBlank ==
    <<<<>>,
      <<" ">>>>

\* Queens,UHF34,106105106,10463,10463: repeated id and zip
UhfQueens ==
    <<<<"Q", "u", "e", "e", "n", "s">>,
      <<"U", "H", "F", "3", "4">>,
      <<"1", "0", "6", "1", "0", "5", "1", "0", "6">>,
      <<"1", "0", "4", "6", "3">>,
      <<"1", "0", "4", "6", "3">>>>

\* Bronx,UHF42,12³456,10463: isdigit() holds of the code, int() rejects a
\* chunk of it
UhfSuperscript ==
    <<<<"B", "r", "o", "n", "x">>,
      <<"U", "H", "F", "4", "2">>,
      <<"1", "2", "³", "4", "5", "6">>,
      <<"1", "0", "4", "6", "3">>>>

\* ' école',205,1046² with U+00A0 after the name: a name outside ASCII and
\* a zip cell that ends in a superscript digit
UhfEcole ==
    <<<<" ", "é", "c", "o", "l", "e", " ">>,
      <<"2", "0", "5">>,
      <<"1", "0", "4", "6", "²">>>>

UhfRowSet ==
    {UhfHeader, UhfHeaderZipFirst, UhfBronx, UhfBronxA, UhfPadded, UhfNoZip,
     UhfBadCode, UhfBlank, UhfQueens, UhfSuperscript, UhfEcole}

\* Brooklyn,UHF42,205,11232
UhfBrooklyn ==
    <<<<"B", "r", "o", "o", "k", "l", "y", "n">>,
      <<"U", "H", "F", "4", "2">>,
      <<"2", "0", "5">>,
      <<"1", "1", "2", "3", "2">>>>

\* ' brooklyn',UHF34,101205,11232,10463
UhfBrooklynTwo ==
    <<<<" ", "b", "r", "o", "o", "k", "l", "y", "n">>,
      <<"U", "H", "F", "3", "4">>,
      <<"1", "0", "1", "2", "0", "5">>,
      <<"1", "1", "2", "3", "2">>,
      <<"1", "0", "4", "6", "3">>>>

MainAqRowSet == {AqHeader, AqBronxA, AqSunset}

MainUhfRowSet == {UhfHeader, UhfBrooklyn, UhfBrooklynTwo, UhfBronxA, UhfEcole}

\* zip codes typed at the prompt
ZipTerms ==
    {<<"1", "1", "2", "3", "2">>,
     <<"1", "0", "4", "6", "3">>,
     <<"9", "9", "9", "9", "9">>,
     <<"1", "1", "2", "3">>,
     <<"1", "0", "4", "6", "²">>,
     <<" ", "1", "1", "2", "3", "2", " ">>}

\* uhf ids typed at the prompt
UhfTerms ==
    {<<"2", "0", "5">>,
     <<" ", "1", "0", "1", " ">>,
     <<"a", "b", "c">>,
     <<"9", "9", "9">>,
     <<"1", "0", "4", "6", "3">>,
     <<"\t", "2", "0", "5", " ">>,
     <<"2", "0", "³">>}

\* borough names typed at the prompt
BoroughTerms ==
    {<<"b", "r", "o", "o", "k", "l", "y", "n">>,
     <<" ", "B", "r", "o", "o", "k", "l", "y", "n", " ">>,
     <<"B", "R", "O", "O", "K", "L", "Y", "N">>,
     <<"B", "r", "o", "n", "x">>,
     <<"Q", "u", "e", "e", "n", "s">>,
     <<"É", "C", "O", "L", "E">>,
     <<" ", "é", "c", "o", "l", "e">>}

\* dates typed at the prompt
DateTerms ==
    {<<"2", "0", "0", "9", "/", "0", "6", "/", "0", "1">>,
     <<" ", "2", "0", "1", "0", "/", "0", "1", "/", "0", "1", " ">>,
     <<"2", "0", "0", "9", "/", "0", "6", "/", "0", "1", "">>,
     <<"2", "0", "0", "9", "/", "6", "/", "1">>}

\* code cells beyond the enumerated ones
ExtraCodes ==
    {<<"1", "0", "5", "1", "0", "6", "1", "0", "7">>,
     <<"2", "0", "5">>,
     <<"1", "_", "0">>,
     <<"+", "1", "0", "5">>,
     <<"1", "0", "5", " ", "1", "0", "6">>,
     <<"1", "2", "³", "4", "5", "6">>,
     <<"1", "0", "5", "1", "0", "6", "">>}

\* the characters the enumerated code cells are made of
CodeChars == {"0", "1", " ", "-", "x", "²"}

CodeInputs == FilesOver(CodeChars, MaxCodeLen) \cup ExtraCodes

(***************************************************************************)
(* main(): the searches, and the specifications                            *)
(***************************************************************************)
call_search_by_zip ==
    /\ pc = "menu"
    /\ \E typed \in ZipTerms :
           LET term == Strip(typed)    \* input(...).strip()
           IN  /\ query' = <<"zip", term>>
               /\ results' = search_by_zip(term, zip_to_uhfs, by_uhf)
    /\ UNCHANGED <<aq_rows, uhf_rows, pc, i, start_idx, by_uhf, by_date, rows,
                   has_header, i_bor, i_uhf, i_zip_start, zip_to_uhfs,
                   borough_to_uhfs, code_in, code_out>>

call_search_by_uhf ==
    /\ pc = "menu"
    /\ \E typed \in UhfTerms :
           LET term == Strip(typed)    \* input(...).strip()
           IN  /\ query' = <<"uhf", term>>
               /\ results' = search_by_uhf(term, by_uhf)
    /\ UNCHANGED <<aq_rows, uhf_rows, pc, i, start_idx, by_uhf, by_date, rows,
                   has_header, i_bor, i_uhf, i_zip_start, zip_to_uhfs,
                   borough_to_uhfs, code_in, code_out>>

call_search_by_borough ==
    /\ pc = "menu"
    /\ \E typed \in BoroughTerms :
           LET term == Strip(typed)    \* input(...).strip()
           IN  /\ query' = <<"borough", term>>
               /\ results' = search_by_borough(term, borough_to_uhfs, by_uhf)
    /\ UNCHANGED <<aq_rows, uhf_rows, pc, i, start_idx, by_uhf, by_date, rows,
                   has_header, i_bor, i_uhf, i_zip_start, zip_to_uhfs,
                   borough_to_uhfs, code_in, code_out>>

call_search_by_date ==
    /\ pc = "menu"
    /\ \E typed \in DateTerms :
           LET term == Strip(typed)    \* input(...).strip()
           IN  /\ query' = <<"date", term>>
               /\ results' = search_by_date(term, by_date)
    /\ UNCHANGED <<aq_rows, uhf_rows, pc, i, start_idx, by_uhf, by_date, rows,
                   has_header, i_bor, i_uhf, i_zip_start, zip_to_uhfs,
                   borough_to_uhfs, code_in, code_out>>

\* choice q, quit or exit: main() returns
main_quit ==
    /\ pc = "menu"
    /\ pc' = "done"
    /\ UNCHANGED <<aq_rows, uhf_rows, i, start_idx, by_uhf, by_date, rows,
                   has_header, i_bor, i_uhf, i_zip_start, zip_to_uhfs,
                   borough_to_uhfs, query, results, code_in, code_out>>

call_expand_uhf_code ==
    /\ pc = "expand_call"
    /\ IF _expand_uhf_code_raises(code_in)
       THEN /\ pc' = "ValueError"
            /\ UNCHANGED code_out
       ELSE /\ code_out' = _expand_uhf_code(code_in)
            /\ pc' = "expand_done"
    /\ UNCHANGED <<aq_rows, uhf_rows, i, start_idx, by_uhf, by_date, rows,
                   has_header, i_bor, i_uhf, i_zip_start, zip_to_uhfs,
                   borough_to_uhfs, query, results, code_in>>

\* everything but the two files, the position and the code cell
InitRest ==
    /\ i = 0
    /\ start_idx = 0
    /\ by_uhf = <<>>
    /\ by_date = <<>>
    /\ rows = <<>>
    /\ has_header = FALSE
    /\ i_bor = 0
    /\ i_uhf = 1
    /\ i_zip_start = 2
    /\ zip_to_uhfs = <<>>
    /\ borough_to_uhfs = <<>>
    /\ query = <<"none", <<>>>>
    /\ results = <<>>
    /\ code_out = <<>>

\* main() on two small files, then any searches
Init ==
    /\ pc = "read_pollution"
    /\ aq_rows \in FilesOver(MainAqRowSet, MaxMainRows)
    /\ uhf_rows \in FilesOver(MainUhfRowSet, MaxMainRows)
    /\ code_in = <<>>
    /\ InitRest

Next ==
    \/ read_pollution_begin
    \/ read_pollution_row
    \/ read_pollution_return
    \/ read_uhf_begin
    \/ read_uhf_row_a
    \/ read_uhf_row_b
    \/ read_uhf_return
    \/ call_search_by_zip
    \/ call_search_by_uhf
    \/ call_search_by_borough
    \/ call_search_by_date
    \/ main_quit

Spec == Init /\ [][Next]_vars

\* read_pollution on any measurement file, the geography file empty
InitPollution ==
    /\ pc = "read_pollution"
    /\ aq_rows \in FilesOver(AqRowSet, MaxAqRows)
    /\ uhf_rows = <<>>
    /\ code_in = <<>>
    /\ InitRest

NextPollution ==
    \/ read_pollution_begin
    \/ read_pollution_row
    \/ read_pollution_return
    \/ read_uhf_begin
    \/ call_search_by_uhf
    \/ call_search_by_date

SpecPollution == InitPollution /\ [][NextPollution]_vars

\* read_uhf on any geography file, the measurement file empty
InitGeography ==
    /\ pc = "read_pollution"
    /\ aq_rows = <<>>
    /\ uhf_rows \in FilesOver(UhfRowSet, MaxUhfRows)
    /\ code_in = <<>>
    /\ InitRest

NextGeography ==
    \/ read_pollution_begin
    \/ read_uhf_begin
    \/ read_uhf_row_a
    \/ read_uhf_row_b
    \/ read_uhf_return

SpecGeography == InitGeography /\ [][NextGeography]_vars

\* one call of _expand_uhf_code on any code cell
InitExpand ==
    /\ pc = "expand_call"
    /\ aq_rows = <<>>
    /\ uhf_rows = <<>>
    /\ code_in \in CodeInputs
    /\ InitRest

NextExpand == call_expand_uhf_code

SpecExpand == InitExpand /\ [][NextExpand]_vars

(***************************************************************************)
(* Properties of read_pollution (SpecPollution)                            *)
(***************************************************************************)
\* read_pollution has returned
PollutionLoaded == pc \in {"read_uhf", "menu"}

\* the measurements of the valid rows of rs, in file order
RECURSIVE ValidMeasurements(_)
ValidMeasurements(rs) ==
    IF rs = <<>> THEN <<>>
    ELSE (IF RowIsValid(Head(rs)) THEN <<MeasurementOf(Head(rs))>> ELSE <<>>)
             \o ValidMeasurements(Tail(rs))

\* s without its k-th element
RemoveAt(s, k) == SubSeq(s, 1, k - 1) \o SubSeq(s, k + 1, Len(s))

\* C1: once read_pollution has returned, for every valid row of the file,
\* row 0 included, by_uhf[uhf_id] and by_date[date] hold exactly the
\* measurements of the valid rows with that id (that date), one per row, in
\* file order.
C1_EveryValidRowIndexed ==
    PollutionLoaded =>
        LET ms == ValidMeasurements(aq_rows)
        IN  \A k \in DOMAIN ms :
                /\ ms[k][2] \in DOMAIN by_uhf
                /\ by_uhf[ms[k][2]] = SelectSeq(ms, LAMBDA m : m[2] = ms[k][2])
                /\ ms[k][1] \in DOMAIN by_date
                /\ by_date[ms[k][1]] = SelectSeq(ms, LAMBDA m : m[1] = ms[k][1])

\* C3: row 0 (when it has a cell) is skipped as a header if and only if
\* _to_int_safe does not parse its first cell.
C3_HeaderIffNotInteger ==
    (pc = "aq_loop" /\ aq_rows[1] # <<>>) =>
        (start_idx = 1 <=> _to_int_safe(aq_rows[1][1]) = None)

\* C5: once read_pollution has returned, the two dicts are those the loader
\* builds from the file without any one of its malformed data rows.
C5_MalformedRowAsIfAbsent ==
    PollutionLoaded =>
        \A k \in DOMAIN aq_rows :
            (k > start_idx /\ ~RowIsValid(aq_rows[k])) =>
                <<by_uhf, by_date>> = read_pollution(RemoveAt(aq_rows, k))

(***************************************************************************)
(* Properties of read_uhf (SpecGeography)                                  *)
(***************************************************************************)
\* read_uhf is in one of its loops or has returned
InGeography == pc \in {"uhf_loop_a", "uhf_loop_b", "menu"}

\* 1-based position of the first data row
DataStart == IF has_header THEN 2 ELSE 1

\* the row is passed over by the length test of its layout
RowSkipped(r) ==
    IF has_header THEN Len(r) <= Max3(i_bor, i_uhf, i_zip_start) ELSE Len(r) < 3

\* the ids, the borough and the zips a data row that is not passed over yields
RowIds(r) == _expand_uhf_code(IF has_header THEN r[i_uhf + 1] ELSE r[3])

RowBorough(r) == Title(Strip(IF has_header THEN r[i_bor + 1] ELSE r[1]))

RowZips(r) ==
    LET cells == SubSeq(r, IF has_header THEN i_zip_start + 1 ELSE 4, Len(r))
    IN  {SubSeq(cells[k], 1, 5) :
            k \in {j \in DOMAIN cells :
                      Len(cells[j]) >= 5 /\ IsDigitStr(SubSeq(cells[j], 1, 5))}}

\* the ids the first n rows offer to zip z, and to borough b, in file order
RECURSIVE ZipStream(_, _)
ZipStream(z, n) ==
    IF n < DataStart THEN <<>>
    ELSE ZipStream(z, n - 1)
             \o (IF ~RowSkipped(rows[n]) /\ z \in RowZips(rows[n])
                 THEN RowIds(rows[n]) ELSE <<>>)

RECURSIVE BoroughStream(_, _)
BoroughStream(b, n) ==
    IF n < DataStart THEN <<>>
    ELSE BoroughStream(b, n - 1)
             \o (IF ~RowSkipped(rows[n]) /\ b = RowBorough(rows[n])
                 THEN RowIds(rows[n]) ELSE <<>>)

\* s with only the first occurrence of each element kept
RECURSIVE KeepFirst(_)
KeepFirst(s) ==
    IF s = <<>> THEN <<>>
    ELSE LET front == SubSeq(s, 1, Len(s) - 1)
         IN  IF \E q \in DOMAIN front : front[q] = s[Len(s)]
             THEN KeepFirst(front)
             ELSE Append(KeepFirst(front), s[Len(s)])

NoRepeat(s) == \A p, q \in DOMAIN s : s[p] = s[q] => p = q

\* C2: no key of zip_to_uhfs or borough_to_uhfs maps to an empty list.
C2_NoEmptyValueList ==
    /\ \A z \in DOMAIN zip_to_uhfs : zip_to_uhfs[z] # <<>>
    /\ \A b \in DOMAIN borough_to_uhfs : borough_to_uhfs[b] # <<>>

\* C4, as the specification words it: in layout A a processed data row with
\* as many cells as the largest column index (its borough and code cells
\* present) that yields a borough and ids has them recorded in
\* borough_to_uhfs.
C4_RowAtLargestIndexRecorded ==
    (InGeography /\ has_header) =>
        \A n \in 2..i :
            LET r == rows[n]
            IN  (/\ Len(r) >= Max3(i_bor, i_uhf, i_zip_start)
                 /\ i_bor < Len(r)
                 /\ i_uhf < Len(r)
                 /\ RowBorough(r) # <<>>
                 /\ RowIds(r) # <<>>) =>
                    /\ RowBorough(r) \in DOMAIN borough_to_uhfs
                    /\ \A k \in DOMAIN RowIds(r) :
                           InList(RowIds(r)[k], borough_to_uhfs[RowBorough(r)])

\* C4, amended: in layout A a data row with no cell at the largest of the
\* three column indexes (cells <= that index) leaves both dicts as they were
\* and raises nothing; any longer row is processed: unless the expansion of
\* its code cell raises, its borough (when it yields a borough and ids) and
\* each of its zips are recorded.
C4_SkipsRowsWithoutCellAtLargestIndex ==
    [][(pc = "uhf_loop_a" /\ i < Len(rows)) =>
          LET r == rows[i + 1]
          IN  /\ Len(r) <= Max3(i_bor, i_uhf, i_zip_start) =>
                    /\ zip_to_uhfs' = zip_to_uhfs
                    /\ borough_to_uhfs' = borough_to_uhfs
                    /\ pc' = "uhf_loop_a"
                    /\ i' = i + 1
              /\ Len(r) > Max3(i_bor, i_uhf, i_zip_start) =>
                    IF _expand_uhf_code_raises(r[i_uhf + 1])
                    THEN pc' = "ValueError"
                    ELSE /\ (RowBorough(r) # <<>> /\ RowIds(r) # <<>>) =>
                                /\ RowBorough(r) \in DOMAIN borough_to_uhfs'
                                /\ \A k \in DOMAIN RowIds(r) :
                                       InList(RowIds(r)[k],
                                              borough_to_uhfs'[RowBorough(r)])
                         /\ \A z \in RowZips(r) : z \in DOMAIN zip_to_uhfs'
                         /\ pc' = "uhf_loop_a"
                         /\ i' = i + 1]_vars

\* a layout A row with borough and code cells and as many cells as the zip
\* start index, the largest index, has been passed over
C4_Witness ==
    /\ pc = "uhf_loop_a"
    /\ i >= 2
    /\ i_zip_start = Max3(i_bor, i_uhf, i_zip_start)
    /\ Len(rows[i]) = i_zip_start
    /\ i_bor < i_zip_start
    /\ i_uhf < i_zip_start
    /\ RowBorough(rows[i]) # <<>>
    /\ RowIds(rows[i]) # <<>>
    /\ RowBorough(rows[i]) \notin DOMAIN borough_to_uhfs

\* C6: every value of zip_to_uhfs and borough_to_uhfs holds no id twice and
\* lists its ids in the order they were first offered to its key, by the rows
\* in file order and within a row in the order of the code expansion.
C6_ValuesAreOrderedSets ==
    InGeography =>
        /\ \A z \in DOMAIN zip_to_uhfs :
               /\ NoRepeat(zip_to_uhfs[z])
               /\ zip_to_uhfs[z] = KeepFirst(ZipStream(z, i))
        /\ \A b \in DOMAIN borough_to_uhfs :
               /\ NoRepeat(borough_to_uhfs[b])
               /\ borough_to_uhfs[b] = KeepFirst(BoroughStream(b, i))

\* two rows have offered overlapping ids to one zip and to one borough
C6_Witness ==
    /\ InGeography
    /\ i >= 2
    /\ \E z \in DOMAIN zip_to_uhfs :
           /\ Len(zip_to_uhfs[z]) >= 2
           /\ Len(ZipStream(z, i)) > Len(zip_to_uhfs[z])
    /\ \E b \in DOMAIN borough_to_uhfs :
           /\ Len(borough_to_uhfs[b]) >= 2
           /\ Len(BoroughStream(b, i)) > Len(borough_to_uhfs[b])

\* position in the file of its first row with a non-blank cell
FirstNonBlank ==
    CHOOSE a \in DOMAIN uhf_rows :
        /\ AnyCell(uhf_rows[a])
        /\ \A b \in 1..(a - 1) : ~AnyCell(uhf_rows[b])

\* some cell of r, lower-cased, holds one of the five header keywords
KeywordInRow(r) ==
    \E k \in DOMAIN r :
        \/ Contains(Lower(r[k]), <<"b", "o", "r", "o", "u", "g", "h">>)
        \/ Contains(Lower(r[k]), <<"b", "o", "r", "o">>)
        \/ Contains(Lower(r[k]), <<"z", "i", "p">>)
        \/ Contains(Lower(r[k]), <<"u", "h", "f", "_", "i", "d">>)
        \/ Contains(Lower(r[k]), <<"u", "h", "f", " ", "i", "d">>)

TextBronx == <<"B", "r", "o", "n", "x">>

Text10463 == <<"1", "0", "4", "6", "3">>

\* C8: read_uhf takes layout A, and does not use row 0 as data, if and only
\* if a cell of the first non-blank row holds a header keyword; otherwise it
\* takes layout B and row 0 is data: a first row Bronx,UHF42,101,10463 puts
\* 101 first under "Bronx" and under "10463", and alone yields exactly that.
C8_LayoutByKeyword ==
    pc \in {"uhf_loop_a", "uhf_loop_b"} =>
        LET first == uhf_rows[FirstNonBlank]
        IN  /\ pc = "uhf_loop_a" <=> KeywordInRow(first)
            /\ pc = "uhf_loop_a" =>
                   /\ i >= 1
                   /\ i = 1 => (zip_to_uhfs = <<>> /\ borough_to_uhfs = <<>>)
            /\ (first = UhfBronx /\ i >= 1) =>
                   /\ pc = "uhf_loop_b"
                   /\ TextBronx \in DOMAIN borough_to_uhfs
                   /\ Head(borough_to_uhfs[TextBronx]) = 101
                   /\ Text10463 \in DOMAIN zip_to_uhfs
                   /\ Head(zip_to_uhfs[Text10463]) = 101
            /\ (rows = <<UhfBronx>> /\ i = 1) =>
                   /\ DOMAIN borough_to_uhfs = {TextBronx}
                   /\ borough_to_uhfs[TextBronx] = <<101>>
                   /\ DOMAIN zip_to_uhfs = {Text10463}
                   /\ zip_to_uhfs[Text10463] = <<101>>

\* the file starts with blank rows and then Bronx,UHF42,101,10463, which has
\* been processed as a layout B data row
C8_Witness ==
    /\ pc = "uhf_loop_b"
    /\ i = 1
    /\ rows = <<UhfBronx>>
    /\ Len(uhf_rows) >= 2
    /\ borough_to_uhfs[TextBronx] = <<101>>
    /\ zip_to_uhfs[Text10463] = <<101>>

(***************************************************************************)
(* Properties of the query functions (Spec) and of _expand_uhf_code        *)
(* (SpecExpand)                                                            *)
(***************************************************************************)
\* the measurement lists of the ids, in the order of the ids
ListsOf(ids, byu) ==
    [k \in DOMAIN ids |-> IF ids[k] \in DOMAIN byu THEN byu[ids[k]] ELSE <<>>]

RECURSIVE SumLen(_, _)
SumLen(ls, n) == IF n = 0 THEN 0 ELSE SumLen(ls, n - 1) + Len(ls[n])

\* out is the lists of ls laid end to end
IsConcatOf(out, ls) ==
    /\ Len(out) = SumLen(ls, Len(ls))
    /\ \A k \in DOMAIN ls :
           \A j \in DOMAIN ls[k] : out[SumLen(ls, k - 1) + j] = ls[k][j]

IdsUnder(d, key) == IF key \in DOMAIN d THEN d[key] ELSE <<>>

\* C7: search_by_zip returns the measurement lists of the ids under the code,
\* laid end to end in the order of the ids, nothing removed; search_by_borough
\* does so for the ids under the trimmed, title-cased name, and names that
\* trimmed differ in case only return the same result.
C7_SearchConcatenates ==
    /\ query[1] = "zip" =>
           IsConcatOf(results, ListsOf(IdsUnder(zip_to_uhfs, query[2]), by_uhf))
    /\ query[1] = "borough" =>
           /\ IsConcatOf(results,
                         ListsOf(IdsUnder(borough_to_uhfs, Title(Strip(query[2]))),
                                 by_uhf))
           /\ \A other \in BoroughTerms :
                  Lower(Strip(other)) = Lower(Strip(query[2])) =>
                      search_by_borough(other, borough_to_uhfs, by_uhf) = results

\* "brooklyn" was searched with ids 101, 205 under "Brooklyn" and the file
\* holding the 205 row before the 101 row: the result is in id order
C7_Witness ==
    /\ query = <<"borough", <<"b", "r", "o", "o", "k", "l", "y", "n">>>>
    /\ aq_rows = <<AqSunset, AqBronxA>>
    /\ IdsUnder(borough_to_uhfs, <<"B", "r", "o", "o", "k", "l", "y", "n">>)
           = <<101, 205>>
    /\ results = <<MeasurementOf(AqBronxA), MeasurementOf(AqSunset)>>

\* C9: _expand_uhf_code returns a list for every cell: for a trimmed cell of
\* digits only, longer than 3 and of a length that is a multiple of 3, the
\* values of its 3-digit chunks in order; otherwise the one int the trimmed
\* cell parses to; and the empty list when it is empty or no int.
C9_ExpandUhfCode ==
    pc \in {"expand_done", "ValueError"} =>
        LET s == Strip(code_in)
        IN  /\ pc = "expand_done"
            /\ IF IsDigitStr(s) /\ Len(s) > 3 /\ Len(s) % 3 = 0
               THEN /\ 3 * Len(code_out) = Len(s)
                    /\ \A k \in DOMAIN code_out :
                           code_out[k] = 100 * DigitVal(s[3 * k - 2])
                                           + 10 * DigitVal(s[3 * k - 1])
                                           + DigitVal(s[3 * k])
               ELSE IF IntParses(s) THEN code_out = <<IntValue(s)>>
               ELSE code_out = <<>>
            /\ code_in = <<"1", "0", "5", "1", "0", "6", "1", "0", "7">> =>
                   code_out = <<105, 106, 107>>
            /\ code_in = <<"2", "0", "5">> => code_out = <<205>>
            /\ code_in = <<>> => code_out = <<>>

\* C10: a search whose key (the code, the parsed id, the trimmed title-cased
\* name, the trimmed date) is not a key of its dict returns the empty list,
\* and so does a search by an id that is no int.
C10_AbsentKeyGivesEmpty ==
    /\ (query[1] = "zip" /\ query[2] \notin DOMAIN zip_to_uhfs) => results = <<>>
    /\ (query[1] = "uhf" /\ _to_int_safe(query[2]) = None) => results = <<>>
    /\ (/\ query[1] = "uhf"
        /\ _to_int_safe(query[2]) # None
        /\ _to_int_safe(query[2])[1] \notin DOMAIN by_uhf) => results = <<>>
    /\ (/\ query[1] = "borough"
        /\ Title(Strip(query[2])) \notin DOMAIN borough_to_uhfs) => results = <<>>
    /\ (query[1] = "date" /\ Strip(query[2]) \notin DOMAIN by_date) => results = <<>>

\* "1123" was searched while "11232" is a key with measurements behind it
C10_Witness ==
    /\ query = <<"zip", <<"1", "1", "2", "3">>>>
    /\ <<"1", "1", "2", "3", "2">> \in DOMAIN zip_to_uhfs
    /\ search_by_zip(<<"1", "1", "2", "3", "2">>, zip_to_uhfs, by_uhf) # <<>>
    /\ results = <<>>

====
